---- MODULE Spec2Model ----
(***************************************************************************)
(* A model of the token REST gateway: the Flask application of             *)
(* "Python Backend/app.py" and the ContractHandler class it delegates to   *)
(* (the class lives in the file stored as "Python Backend/config.py").     *)
(*                                                                         *)
(* A request is handled by a worker thread.  The code a handler runs       *)
(* between two calls to the blockchain node touches only its own locals,   *)
(* so each call to the node is one step and the local code before it is    *)
(* folded into the step that precedes it.                                  *)
(*                                                                         *)
(* The node is the environment.  It counts, per account, the transactions  *)
(* it has accepted (eth_getTransactionCount) and accepts a raw transaction *)
(* exactly when its nonce is that count (a node that mines each accepted   *)
(* transaction at once).  Any call to the node may also fail: which call   *)
(* of a request fails, if any, is drawn when the request arrives (env).    *)
(*                                                                         *)
(* Strings stand for themselves: "0xA1" is the checksummed address of      *)
(* account a1, "0xa1" the same address in lower case, "zzz" no address.    *)
(* A float is [cls, n, k]: the finite value n / 10^k, NaN or +infinity.    *)
(***************************************************************************)
EXTENDS Integers, Sequences, FiniteSets, TLC

VARIABLES handler, chain, slot, hist

vars == <<handler, chain, slot, hist>>

(***************************************************************************)
(* Bounds of the model.                                                    *)
(***************************************************************************)
MaxTx == 2
MaxDecimals == 1

Workers == {"w1", "w2"}
GasPrices == {1, 2}
Accounts == {"a1", "a2"}

(***************************************************************************)
(* Accounts, keys and addresses (eth_account, eth_utils).                  *)
(***************************************************************************)
NoField == "<absent>"

AddressOf(acct) == IF acct = "a1" THEN "0xA1" ELSE "0xA2"

IsKey(private_key) == private_key \in {"k1", "k2"}

\* Account.from_key: the account a well-formed key controls
FromKey(private_key) == IF private_key = "k1" THEN "a1" ELSE "a2"

\* str.lower on the strings of the model
Lower(s) ==
  CASE s = "0xA1" -> "0xa1"
    [] s = "0xA2" -> "0xa2"
    [] OTHER -> s

IsAddress(s) == s \in {"0xA1", "0xa1", "0xA2", "0xa2"}

IsChecksumAddress(s) == s \in {"0xA1", "0xA2"}

is_valid_address(address) == IsAddress(address) /\ IsChecksumAddress(address)

(***************************************************************************)
(* JSON values of the "amount" field and Python floats.                    *)
(***************************************************************************)
JNum(n, k) == [t |-> "number", n |-> n, k |-> k, lex |-> ""]
JStr(lex) == [t |-> "string", n |-> 0, k |-> 0, lex |-> lex]
JNull == [t |-> "null", n |-> 0, k |-> 0, lex |-> ""]
JTrue == [t |-> "bool", n |-> 1, k |-> 0, lex |-> "true"]
JNaN == [t |-> "number", n |-> 0, k |-> 0, lex |-> "NaN"]
JBigInt == [t |-> "number", n |-> 0, k |-> 0, lex |-> "10**400"]
NoAmount == [t |-> "absent", n |-> 0, k |-> 0, lex |-> ""]

Fin(n, k) == [cls |-> "fin", n |-> n, k |-> k]
NaN == [cls |-> "nan", n |-> 0, k |-> 0]
Inf == [cls |-> "inf", n |-> 0, k |-> 0]
NoFloat == [cls |-> "none", n |-> 0, k |-> 0]

IsFinite(f) == f.cls = "fin"

Raised(type, msg) == [exc |-> type, msg |-> msg, val |-> NoFloat]
Returned(f) == [exc |-> "", msg |-> "", val |-> f]

\* float(str): the numerals among the strings of the model
ParseFloat(lex) ==
  CASE lex = "1" -> Returned(Fin(1, 0))
    [] lex = "0.5" -> Returned(Fin(5, 1))
    [] lex = "nan" -> Returned(NaN)
    [] lex = "inf" -> Returned(Inf)
    [] OTHER -> Raised("ValueError", "could not convert string to float")

\* float(amount) for the value request.get_json() gives the field
Float(v) ==
  CASE v.t = "number" /\ v.lex = "" -> Returned(Fin(v.n, v.k))
    [] v.t = "number" /\ v.lex = "NaN" -> Returned(NaN)
    [] v.t = "number" /\ v.lex = "10**400" ->
         Raised("OverflowError", "int too large to convert to float")
    [] v.t = "bool" -> Returned(Fin(v.n, 0))
    [] v.t = "string" -> ParseFloat(v.lex)
    [] OTHER -> Raised("TypeError", "float() argument must be a string or a real number")

\* amount <= 0 on floats: every comparison with NaN is false
LeqZero(f) == f.cls = "fin" /\ f.n <= 0

\* jsonify of a float: a JSON number
ToJson(f) == JNum(f.n, f.k)

RECURSIVE Pow10(_)
Pow10(d) == IF d = 0 THEN 1 ELSE 10 * Pow10(d - 1)

\* int(x) of the quotient a / b, b > 0: truncation toward zero
Trunc(a, b) == IF a >= 0 THEN a \div b ELSE -((-a) \div b)

\* int(amount * (10 ** decimals))
ToWei(f, decimals) ==
  CASE f.cls = "fin" ->
         [exc |-> "", msg |-> "", wei |-> Trunc(f.n * Pow10(decimals), Pow10(f.k))]
    [] f.cls = "nan" ->
         [exc |-> "ValueError", msg |-> "cannot convert float NaN to integer", wei |-> 0]
    [] OTHER ->
         [exc |-> "OverflowError", msg |-> "cannot convert float infinity to integer", wei |-> 0]

(***************************************************************************)
(* Requests, responses and the locals of a handler.                        *)
(***************************************************************************)
NoParams == [kind |-> "absent", to_address |-> NoField, from_address |-> NoField,
             has_amount |-> FALSE]

NoBody == [kind |-> "none", to_address |-> NoField, from_address |-> NoField,
           amount |-> NoAmount, private_key |-> NoField, function_name |-> NoField,
           params |-> NoParams]

NoReq == [ep |-> "", address |-> "", tx_hash |-> "", body |-> NoBody]

NoEnv == [fault |-> "none", receipt |-> "raise", txn |-> "raise"]

NoTx == [fn |-> "", sender |-> "", signer |-> "", to |-> "", amount_wei |-> 0,
         gas |-> 0, gasPrice |-> 0, nonce |-> 0]

NoData == [keys |-> {}, transaction_hash |-> NoTx, to_address |-> NoField,
           from_address |-> NoField, amount |-> NoAmount, status |-> "",
           function_name |-> NoField]

NoResp == [status |-> 0, success |-> FALSE, keys |-> {}, error |-> "", data |-> NoData]

IdleSlot == [pc |-> "idle", req |-> NoReq, env |-> NoEnv, fn |-> "", signer |-> "",
             from |-> "", to |-> "", amount |-> NoFloat, amount_wei |-> 0,
             gasPrice |-> 0, nonce |-> 0, calls |-> {}, reads |-> {}, sends |-> 0,
             resp |-> NoResp]

\* jsonify({'success': True, 'data': data})
Success(data) ==
  [status |-> 200, success |-> TRUE, keys |-> {"success", "data"}, error |-> "",
   data |-> data]

\* mutant: the failure envelope carries its message under 'data'
FailureWithoutError(status, msg) ==
  [status |-> status, success |-> FALSE, keys |-> {"success", "data"}, error |-> msg,
   data |-> NoData]

\* jsonify({'success': False, 'error': msg}), status
Failure(status, msg) ==
  [status |-> status, success |-> FALSE, keys |-> {"success", "error"}, error |-> msg,
   data |-> NoData]

\* a call of a method of contract_handler, with the addresses and amount it is given
Call(fn, addrs, amount) == [fn |-> fn, addrs |-> addrs, amount |-> amount]

Done(s, resp) == [s EXCEPT !.pc = "done", !.resp = resp]

Called(s, fn, addrs, amount) == [s EXCEPT !.calls = @ \cup {Call(fn, addrs, amount)}]

\* the global error handler: a request no route matches
handle_error(s) ==
  Done(s, [status |-> 500, success |-> FALSE,
           keys |-> {"success", "error", "message"},
           error |-> "404 Not Found", data |-> NoData])

health_check(s) ==
  Done(s, [status |-> 200, success |-> TRUE,
           keys |-> {"success", "message", "version"}, error |-> "",
           data |-> NoData])

NodeError == "node request failed"

get_token_info(s) ==
  LET c == [Called(s, "get_token_info", {}, NoFloat) EXCEPT !.reads = @ \cup {"call"}]
  IN IF s.env.fault = "call"
       THEN Done(c, Failure(500, NodeError))
       ELSE Done(c, Success([NoData EXCEPT !.keys =
              {"name", "symbol", "total_supply", "formatted_total_supply", "decimals",
               "contract_address"}]))

get_balance(s) ==
  LET address == s.req.address
      c == [Called(s, "get_balance", {address}, NoFloat) EXCEPT !.reads = @ \cup {"call"}]
  IN IF ~is_valid_address(address)
       THEN Done(s, Failure(400, "Invalid Ethereum address"))
       ELSE IF s.env.fault = "call"
         THEN Done(c, Failure(500, NodeError))
         ELSE Done(c, Success([NoData EXCEPT
                !.keys = {"address", "balance", "formatted_balance"}]))

\* mutant: any receipt counts as a success
TxStatusAnyReceipt(receipt) == IF receipt = "raise" THEN "pending" ELSE "success"

\* ContractHandler.get_transaction_status: the status it reports
TxStatus(receipt) ==
  IF receipt = "raise" THEN "pending"
  ELSE IF receipt = "status1" THEN "success" ELSE "failed"

get_transaction_status(s) ==
  LET c == [Called(s, "get_transaction_status", {}, NoFloat)
              EXCEPT !.reads = @ \cup {"get_transaction_receipt", "get_transaction"}]
      keys == {"hash", "status"}
              \cup (IF s.env.receipt # "raise"
                      THEN {"block_number", "gas_used", "transaction_index"} ELSE {})
              \cup (IF s.env.txn # "raise"
                      THEN {"from", "to", "value", "gas", "gas_price"} ELSE {})
  IN Done(c, Success([NoData EXCEPT !.keys = keys,
                                    !.status = TxStatus(s.env.receipt)]))

\* request.get_json() and the 'field in data' tests of a POST handler:
\* "BadRequest" (the body is not JSON), "TypeError" ('in' on a JSON number),
\* "missing" or "ok"
Presence(data, required_fields) ==
  CASE data.kind = "invalid" -> "BadRequest"
    [] data.kind = "null" -> "missing"
    [] data.kind = "number" -> "TypeError"
    [] data.kind = "array" -> "missing"
    [] OTHER -> IF \A f \in required_fields :
                     IF f = "amount" THEN data.amount # NoAmount ELSE data[f] # NoField
                  THEN "ok" ELSE "missing"

PresenceFailure(p, msg) ==
  CASE p = "BadRequest" -> Failure(500, "400 Bad Request: Failed to decode JSON object")
    [] p = "TypeError" -> Failure(500, "argument of type 'int' is not iterable")
    [] OTHER -> Failure(400, msg)

\* the 'Validate amount' block of mint, transfer and burn: the response that
\* rejects the amount, or NoResp when the amount passes
ValidateAmount(amount) ==
  LET fl == Float(amount)
  IN IF fl.exc \in {"ValueError", "TypeError"} THEN Failure(400, "Invalid amount")
     ELSE IF fl.exc # "" THEN Failure(500, fl.msg)
     ELSE IF LeqZero(fl.val) THEN Failure(400, "Invalid amount")
     ELSE NoResp

(***************************************************************************)
(* mint, transfer, burn: the handler of app.py up to the first call to the *)
(* node made by the ContractHandler method it delegates to.  h is the      *)
(* ContractHandler object.                                                 *)
(***************************************************************************)
\* where the ContractHandler method starts: the account that will sign is known
StartTx(s, fn, signer, from, to, amount) ==
  [s EXCEPT !.pc = "decimals", !.fn = fn, !.signer = signer, !.from = from,
            !.to = to, !.amount = amount]

\* mutant: the amount is validated after the contract handler was called
mint_tokensValidatesLate(s, h) ==
  LET data == s.req.body
      p == Presence(data, {"to_address", "amount"})
      bad == ValidateAmount(data.amount)
      amount == Float(data.amount).val
      c == Called(s, "mint_tokens", {data.to_address}, amount)
  IN IF p # "ok"
       THEN Done(s, PresenceFailure(p, "Missing required fields: to_address, amount"))
     ELSE IF ~is_valid_address(data.to_address)
       THEN Done(s, Failure(400, "Invalid recipient address"))
     ELSE IF bad # NoResp THEN Done(c, bad)
     ELSE IF h.account = ""
       THEN Done(c, Failure(500, "No account configured for minting"))
     ELSE StartTx(c, "mint", h.account, AddressOf(h.account), data.to_address, amount)

mint_tokens(s, h) ==
  LET data == s.req.body
      p == Presence(data, {"to_address", "amount"})
      bad == ValidateAmount(data.amount)
      amount == Float(data.amount).val
      c == Called(s, "mint_tokens", {data.to_address}, amount)
  IN IF p # "ok"
       THEN Done(s, PresenceFailure(p, "Missing required fields: to_address, amount"))
     ELSE IF ~is_valid_address(data.to_address)
       THEN Done(s, Failure(400, "Invalid recipient address"))
     ELSE IF bad # NoResp THEN Done(s, bad)
     ELSE IF h.account = ""
       THEN Done(c, Failure(500, "No account configured for minting"))
     ELSE StartTx(c, "mint", h.account, AddressOf(h.account), data.to_address, amount)

\* mutant: the derived address is not compared with from_address
KeyCheckNoCompare(private_key, from_address, who) ==
  IF ~IsKey(private_key) THEN "invalid private key" ELSE ""

\* from_key and the comparison of the derived address with from_address, which
\* open transfer_tokens and burn_tokens: the error message, or "" when they pass
KeyCheck(private_key, from_address, who) ==
  IF ~IsKey(private_key) THEN "invalid private key"
  ELSE IF Lower(AddressOf(FromKey(private_key))) # Lower(from_address)
    THEN "Private key does not match " \o who \o " address"
  ELSE ""

\* mutant: the recipient address is validated before the sender address
transfer_tokensRecipientFirst(s, h) ==
  LET data == s.req.body
      p == Presence(data, {"from_address", "to_address", "amount", "private_key"})
      bad == ValidateAmount(data.amount)
      amount == Float(data.amount).val
      c == Called(s, "transfer_tokens", {data.from_address, data.to_address}, amount)
      k == KeyCheck(data.private_key, data.from_address, "sender")
  IN IF p # "ok"
       THEN Done(s, PresenceFailure(p,
              "Missing required fields: from_address, to_address, amount, private_key"))
     ELSE IF ~is_valid_address(data.to_address)
       THEN Done(s, Failure(400, "Invalid recipient address"))
     ELSE IF ~is_valid_address(data.from_address)
       THEN Done(s, Failure(400, "Invalid sender address"))
     ELSE IF bad # NoResp THEN Done(s, bad)
     ELSE IF k # "" THEN Done(c, Failure(500, k))
     ELSE StartTx(c, "transfer", FromKey(data.private_key),
                  AddressOf(FromKey(data.private_key)), data.to_address, amount)

transfer_tokens(s, h) ==
  LET data == s.req.body
      p == Presence(data, {"from_address", "to_address", "amount", "private_key"})
      bad == ValidateAmount(data.amount)
      amount == Float(data.amount).val
      c == Called(s, "transfer_tokens", {data.from_address, data.to_address}, amount)
      k == KeyCheck(data.private_key, data.from_address, "sender")
  IN IF p # "ok"
       THEN Done(s, PresenceFailure(p,
              "Missing required fields: from_address, to_address, amount, private_key"))
     ELSE IF ~is_valid_address(data.from_address)
       THEN Done(s, Failure(400, "Invalid sender address"))
     ELSE IF ~is_valid_address(data.to_address)
       THEN Done(s, Failure(400, "Invalid recipient address"))
     ELSE IF bad # NoResp THEN Done(s, bad)
     ELSE IF k # "" THEN Done(c, Failure(500, k))
     ELSE StartTx(c, "transfer", FromKey(data.private_key),
                  AddressOf(FromKey(data.private_key)), data.to_address, amount)

burn_tokens(s, h) ==
  LET data == s.req.body
      p == Presence(data, {"from_address", "amount", "private_key"})
      bad == ValidateAmount(data.amount)
      amount == Float(data.amount).val
      c == Called(s, "burn_tokens", {data.from_address}, amount)
      k == KeyCheck(data.private_key, data.from_address, "burner")
  IN IF p # "ok"
       THEN Done(s, PresenceFailure(p,
              "Missing required fields: from_address, amount, private_key"))
     ELSE IF ~is_valid_address(data.from_address)
       THEN Done(s, Failure(400, "Invalid address"))
     ELSE IF bad # NoResp THEN Done(s, bad)
     ELSE IF k # "" THEN Done(c, Failure(500, k))
     ELSE StartTx(c, "burn", FromKey(data.private_key),
                  AddressOf(FromKey(data.private_key)), "", amount)

\* ContractHandler.estimate_gas(function_name, **kwargs): the error it raises
\* before it asks the node, or ""
EstimateGasError(function_name, kwargs, h) ==
  LET needs_to == function_name \in {"mint", "transfer"}
      needs_from == function_name \in {"transfer", "burn"}
  IN IF function_name \notin {"mint", "transfer", "burn"}
       THEN "Unknown function: " \o function_name
     ELSE IF needs_to /\ kwargs.to_address = NoField THEN "'to_address'"
     ELSE IF ~kwargs.has_amount THEN "'amount'"
     ELSE IF needs_to /\ ~is_valid_address(kwargs.to_address)
       THEN "web3 rejects the address argument"
     ELSE IF function_name = "mint" /\ h.account = ""
       THEN "'NoneType' object has no attribute 'address'"
     ELSE IF needs_from /\ kwargs.from_address = NoField THEN "'from_address'"
     ELSE IF needs_from /\ ~is_valid_address(kwargs.from_address)
       THEN "web3 rejects the from address"
     ELSE ""

estimate_gas(s, h) ==
  LET data == s.req.body
      p == Presence(data, {"function_name"})
      params == data.params
      c == Called(s, "estimate_gas",
                  {params.to_address, params.from_address} \ {NoField}, NoFloat)
      e == EstimateGasError(data.function_name, params, h)
      r == [c EXCEPT !.reads = @ \cup {"estimate_gas"}]
  IN IF p # "ok"
       THEN Done(s, PresenceFailure(p, "Missing required field: function_name"))
     ELSE IF params.kind = "array"
       THEN Done(s, Failure(500, "argument after ** must be a mapping, not list"))
     ELSE IF e # "" THEN Done(c, Failure(500, e))
     ELSE IF s.env.fault = "call" THEN Done(r, Failure(500, NodeError))
     ELSE Done([r EXCEPT !.reads = @ \cup {"gas_price"}],
               Success([NoData EXCEPT
                 !.keys = {"function_name", "estimated_gas", "estimated_cost_eth"},
                 !.function_name = data.function_name]))

\* the handler of a request up to its first call of the node that another
\* request can affect
Begin(s, h) ==
  CASE s.req.ep = "health" -> health_check(s)
    [] s.req.ep = "token_info" -> get_token_info(s)
    [] s.req.ep = "balance" -> get_balance(s)
    [] s.req.ep = "mint" -> mint_tokens(s, h)
    [] s.req.ep = "transfer" -> transfer_tokens(s, h)
    [] s.req.ep = "burn" -> burn_tokens(s, h)
    [] s.req.ep = "transaction" -> get_transaction_status(s)
    [] s.req.ep = "gas_estimate" -> estimate_gas(s, h)
    [] OTHER -> handle_error(s)

(***************************************************************************)
(* The calls to the node made by mint_tokens, transfer_tokens and          *)
(* burn_tokens of ContractHandler, one step each.  ch is the node's state. *)
(***************************************************************************)
GasLimit(fn) == IF fn = "mint" THEN 200000 ELSE 100000

\* the transaction build_transaction returns and sign_transaction signs
BuildTx(s) ==
  [fn |-> s.fn, sender |-> s.from, signer |-> s.signer, to |-> s.to,
   amount_wei |-> s.amount_wei, gas |-> GasLimit(s.fn), gasPrice |-> s.gasPrice,
   nonce |-> s.nonce]

\* mutant: the response reports the on-chain amount
TxDataWeiAmount(s, tx) ==
  [NoData EXCEPT
     !.keys = {"transaction_hash", "amount", "message"}
              \cup (IF s.fn \in {"mint", "transfer"} THEN {"to_address"} ELSE {})
              \cup (IF s.fn \in {"transfer", "burn"} THEN {"from_address"} ELSE {}),
     !.transaction_hash = tx,
     !.to_address = IF s.fn \in {"mint", "transfer"} THEN s.req.body.to_address
                    ELSE NoField,
     !.from_address = IF s.fn \in {"transfer", "burn"} THEN s.req.body.from_address
                      ELSE NoField,
     !.amount = JNum(s.amount_wei, 0)]

Read(s, what) == [s EXCEPT !.reads = @ \cup {what}]

\* self.contract.functions.decimals().call(), then int(amount * (10 ** decimals))
CallDecimals(s, ch) ==
  LET r == Read(s, "decimals")
      w == ToWei(s.amount, ch.decimals)
  IN IF s.env.fault = "decimals" THEN Done(r, Failure(500, NodeError))
     ELSE IF w.exc # "" THEN Done(r, Failure(500, w.msg))
     ELSE [r EXCEPT !.pc = "gas_price", !.amount_wei = w.wei]

\* self.w3.eth.gas_price
ReadGasPrice(s, ch) ==
  LET r == Read(s, "gas_price")
  IN IF s.env.fault = "gas_price" THEN Done(r, Failure(500, NodeError))
     ELSE [r EXCEPT !.pc = "nonce", !.gasPrice = ch.gasPrice]

\* self.w3.eth.get_transaction_count(address)
ReadNonce(s, ch) ==
  LET r == Read(s, "nonce")
  IN IF s.env.fault = "nonce" THEN Done(r, Failure(500, NodeError))
     ELSE [r EXCEPT !.pc = "send", !.nonce = ch.txCount[s.signer]]

\* whether the node accepts the raw transaction
NodeAccepts(s, ch) == s.env.fault # "send" /\ s.nonce = ch.txCount[s.signer]

\* the 'data' of the response to a submitted mint, transfer or burn
TxData(s, tx) ==
  [NoData EXCEPT
     !.keys = {"transaction_hash", "amount", "message"}
              \cup (IF s.fn \in {"mint", "transfer"} THEN {"to_address"} ELSE {})
              \cup (IF s.fn \in {"transfer", "burn"} THEN {"from_address"} ELSE {}),
     !.transaction_hash = tx,
     !.to_address = IF s.fn \in {"mint", "transfer"} THEN s.req.body.to_address
                    ELSE NoField,
     !.from_address = IF s.fn \in {"transfer", "burn"} THEN s.req.body.from_address
                      ELSE NoField,
     !.amount = ToJson(s.amount)]

\* mutant: a failed send is tried once more
SendRawTransactionRetry(s, ch) ==
  LET r == [s EXCEPT !.sends = @ + 1]
  IN IF s.env.fault = "send"
       THEN IF s.sends = 0 THEN r ELSE Done(r, Failure(500, NodeError))
     ELSE IF ~NodeAccepts(s, ch) THEN Done(r, Failure(500, "nonce too low"))
     ELSE Done(r, Success(TxData(s, BuildTx(s))))

\* self.w3.eth.send_raw_transaction(signed_txn.rawTransaction) and the response
SendRawTransaction(s, ch) ==
  LET r == [s EXCEPT !.sends = @ + 1]
  IN IF s.env.fault = "send" THEN Done(r, Failure(500, NodeError))
     ELSE IF ~NodeAccepts(s, ch) THEN Done(r, Failure(500, "nonce too low"))
     ELSE Done(r, Success(TxData(s, BuildTx(s))))

\* the node after the call
NodeAfterSend(s, ch) ==
  IF NodeAccepts(s, ch)
    THEN [ch EXCEPT !.txCount[s.signer] = @ + 1,
                    !.submitted = @ \cup {BuildTx(s)}]
    ELSE ch

\* one step of a handler that is between two calls to the node
StepOf(s, ch) ==
  CASE s.pc = "decimals" -> [slot |-> CallDecimals(s, ch), chain |-> ch]
    [] s.pc = "gas_price" -> [slot |-> ReadGasPrice(s, ch), chain |-> ch]
    [] s.pc = "nonce" -> [slot |-> ReadNonce(s, ch), chain |-> ch]
    [] OTHER -> [slot |-> SendRawTransaction(s, ch), chain |-> NodeAfterSend(s, ch)]

RECURSIVE RunToEnd(_, _)
RunToEnd(s, ch) ==
  IF s.pc = "done" THEN [slot |-> s, chain |-> ch]
  ELSE RunToEnd(StepOf(s, ch).slot, StepOf(s, ch).chain)

\* a request handled with no other request in flight
Handle(req, env, h, ch) ==
  RunToEnd(Begin([IdleSlot EXCEPT !.req = req, !.env = env], h), ch)

(***************************************************************************)
(* The requests and the node failures the model draws.                     *)
(***************************************************************************)
Get(ep, address, tx_hash) ==
  [ep |-> ep, address |-> address, tx_hash |-> tx_hash, body |-> NoBody]

Post(ep, body) == [ep |-> ep, address |-> "", tx_hash |-> "", body |-> body]

\* a body that is no JSON object: not JSON at all, null, a number, an array
NonObjects == {[NoBody EXCEPT !.kind = k] : k \in {"invalid", "null", "number", "array"}}

Object(to, from, amount, key) ==
  [NoBody EXCEPT !.kind = "object", !.to_address = to, !.from_address = from,
                 !.amount = amount, !.private_key = key]

AmountValues ==
  {JNum(1, 0), JNum(5, 1), JNum(0, 0), JNum(-1, 0), JStr("1"), JStr("abc"),
   JStr("nan"), JStr("inf"), JNull, JTrue, JNaN, JBigInt, NoAmount}

\* a mint request may carry a private_key field: the handler never reads it
MintRequests ==
  {Post("mint", b) : b \in NonObjects \cup
     {Object(to, NoField, a, key) :
        to \in {NoField, "0xA2", "0xa2", "zzz"}, a \in AmountValues,
        key \in {NoField, "k2"}}}

TransferRequests ==
  {Post("transfer", b) : b \in NonObjects \cup
     {Object(to, from, a, key) :
        to \in {NoField, "0xA2", "zzz"}, from \in {NoField, "0xA1", "0xa1", "zzz"},
        a \in AmountValues, key \in {NoField, "k1", "k2", "bad"}}}

BurnRequests ==
  {Post("burn", b) : b \in NonObjects \cup
     {Object(NoField, from, a, key) :
        from \in {NoField, "0xA1", "0xa1", "zzz"},
        a \in AmountValues, key \in {NoField, "k1", "k2", "bad"}}}

ParamValues ==
  {NoParams, [NoParams EXCEPT !.kind = "array"]} \cup
  {[kind |-> "object", to_address |-> to, from_address |-> from, has_amount |-> b] :
     to \in {NoField, "0xA2", "0xa2"}, from \in {NoField, "0xA1", "zzz"},
     b \in BOOLEAN}

GasRequests ==
  {Post("gas_estimate", b) : b \in NonObjects \cup
     {[NoBody EXCEPT !.kind = "object", !.function_name = f, !.params = p] :
        f \in {NoField, "mint", "transfer", "burn", "approve"}, p \in ParamValues}}

BalanceRequests == {Get("balance", a, "") : a \in {"0xA1", "0xa1", "zzz"}}

StatusRequests == {Get("transaction", "", h) : h \in {"0xbeef", "zzz"}}

\* the requests two workers handle at once
ConcurrentRequests ==
  {Post("mint", Object("0xA2", NoField, JNum(1, 0), NoField)),
   Post("transfer", Object("0xA2", "0xA1", JNum(1, 0), "k1")),
   Post("burn", Object(NoField, "0xA1", JNum(5, 1), "k1")),
   Post("burn", Object(NoField, "0xA2", JNum(1, 0), "k2")),
   Post("transfer", Object("0xA2", "0xA1", JNum(1, 0), "k2"))}

Fault(f) == [NoEnv EXCEPT !.fault = f]

TxFaults == {Fault(f) : f \in {"none", "decimals", "gas_price", "nonce", "send"}}

SendFaults == {Fault(f) : f \in {"none", "send"}}

ReadFaults == {Fault(f) : f \in {"none", "call"}}

\* what the node answers to get_transaction_receipt and get_transaction; a
\* malformed hash makes both raise
Lookups(tx_hash) ==
  IF tx_hash = "zzz" THEN {NoEnv}
  ELSE {[fault |-> "none", receipt |-> r, txn |-> t] :
          r \in {"raise", "status0", "status1"}, t \in {"raise", "found"}}

(***************************************************************************)
(* The state machine.                                                      *)
(***************************************************************************)
\* ContractHandler.__init__: the account is set only when a key is configured
NewHandler(private_key) ==
  [private_key |-> private_key,
   account |-> IF private_key # "" THEN FromKey(private_key) ELSE ""]

Init ==
  /\ \E private_key \in {"", "k1"} : handler = NewHandler(private_key)
  /\ \E d \in 0..MaxDecimals, g \in GasPrices :
       chain = [decimals |-> d, gasPrice |-> g, txCount |-> [a \in Accounts |-> 0],
                submitted |-> {}]
  /\ slot = [w \in Workers |-> IdleSlot]
  /\ hist = [base |-> chain, n |-> 0]

\* a free worker takes a request and runs its handler up to its first call to
\* the node; env says which call to the node fails (a request answered before
\* any call to the node has no failure to draw)
Arrive(w, req, env) ==
  LET s == Begin([IdleSlot EXCEPT !.req = req, !.env = env], handler)
  IN /\ s.reads = {} /\ s.pc = "done" => env = NoEnv
     /\ slot' = [slot EXCEPT ![w] = s]
     /\ hist' = IF \A v \in Workers : slot[v].pc = "idle"
                  THEN [base |-> chain, n |-> 1]
                  ELSE [hist EXCEPT !.n = IF @ < 3 THEN @ + 1 ELSE @]
     /\ UNCHANGED <<handler, chain>>

HealthCheck(w) ==
  /\ slot[w].pc = "idle"
  /\ Arrive(w, Get("health", "", ""), NoEnv)

HandleError(w) ==
  /\ slot[w].pc = "idle"
  /\ Arrive(w, Get("unknown", "", ""), NoEnv)

GetTokenInfo(w) ==
  /\ slot[w].pc = "idle"
  /\ \E env \in ReadFaults : Arrive(w, Get("token_info", "", ""), env)

GetBalance(w) ==
  /\ slot[w].pc = "idle"
  /\ \E req \in BalanceRequests, env \in ReadFaults : Arrive(w, req, env)

GetTransactionStatus(w) ==
  /\ slot[w].pc = "idle"
  /\ \E req \in StatusRequests : \E env \in Lookups(req.tx_hash) : Arrive(w, req, env)

EstimateGas(w) ==
  /\ slot[w].pc = "idle"
  /\ \E req \in GasRequests, env \in ReadFaults : Arrive(w, req, env)

\* the model stops taking mint, transfer and burn requests once the node has
\* accepted MaxTx transactions
Mint(w, requests, faults) ==
  /\ slot[w].pc = "idle"
  /\ Cardinality(chain.submitted) < MaxTx
  /\ \E req \in requests, env \in faults : req.ep = "mint" /\ Arrive(w, req, env)

Transfer(w, requests, faults) ==
  /\ slot[w].pc = "idle"
  /\ Cardinality(chain.submitted) < MaxTx
  /\ \E req \in requests, env \in faults : req.ep = "transfer" /\ Arrive(w, req, env)

Burn(w, requests, faults) ==
  /\ slot[w].pc = "idle"
  /\ Cardinality(chain.submitted) < MaxTx
  /\ \E req \in requests, env \in faults : req.ep = "burn" /\ Arrive(w, req, env)

\* worker w makes the next call to the node of the handler it runs
NodeCall(w) ==
  /\ slot' = [slot EXCEPT ![w] = StepOf(slot[w], chain).slot]
  /\ chain' = StepOf(slot[w], chain).chain
  /\ UNCHANGED <<handler, hist>>

Decimals(w) ==
  /\ slot[w].pc = "decimals"
  /\ NodeCall(w)

GasPrice(w) ==
  /\ slot[w].pc = "gas_price"
  /\ NodeCall(w)

Nonce(w) ==
  /\ slot[w].pc = "nonce"
  /\ NodeCall(w)

Send(w) ==
  /\ slot[w].pc = "send"
  /\ NodeCall(w)

\* the response is sent and the worker is free again
Respond(w) ==
  /\ slot[w].pc = "done"
  /\ slot' = [slot EXCEPT ![w] = IdleSlot]
  /\ UNCHANGED <<handler, chain, hist>>

Steps(w) == Decimals(w) \/ GasPrice(w) \/ Nonce(w) \/ Send(w) \/ Respond(w)

\* one request at a time, drawn from all the requests of the model
Next ==
  \/ HealthCheck("w1") \/ HandleError("w1") \/ GetTokenInfo("w1")
  \/ GetBalance("w1") \/ GetTransactionStatus("w1") \/ EstimateGas("w1")
  \/ Mint("w1", MintRequests, TxFaults)
  \/ Transfer("w1", TransferRequests, TxFaults)
  \/ Burn("w1", BurnRequests, TxFaults)
  \/ Steps("w1")

Spec == Init /\ [][Next]_vars

\* two workers, each handling a mint, a transfer or a burn
ConcNext ==
  \E w \in Workers :
    \/ Mint(w, ConcurrentRequests, SendFaults)
    \/ Transfer(w, ConcurrentRequests, SendFaults)
    \/ Burn(w, ConcurrentRequests, SendFaults)
    \/ Steps(w)

ConcSpec == Init /\ [][ConcNext]_vars

(***************************************************************************)
(* The properties.                                                         *)
(***************************************************************************)
Finished(w) == slot[w].pc = "done"

PostEndpoints == {"mint", "transfer", "burn", "gas_estimate"}

TxEndpoints == {"mint", "transfer", "burn"}

RequiredFields(ep) ==
  CASE ep = "mint" -> {"to_address", "amount"}
    [] ep = "transfer" -> {"from_address", "to_address", "amount", "private_key"}
    [] ep = "burn" -> {"from_address", "amount", "private_key"}
    [] OTHER -> {"function_name"}

\* the body is absent, not JSON or not a JSON object
NotAnObject(body) == body.kind \in {"invalid", "null", "number", "array"}

HasField(body, f) == IF f = "amount" THEN body.amount # NoAmount ELSE body[f] # NoField

LacksField(req) ==
  NotAnObject(req.body) \/ \E f \in RequiredFields(req.ep) : ~HasField(req.body, f)

\* the addresses a mint, transfer or burn request carries
AddressFields(ep) ==
  CASE ep = "mint" -> {"to_address"}
    [] ep = "transfer" -> {"from_address", "to_address"}
    [] OTHER -> {"from_address"}

BadAddress(req) == \E f \in AddressFields(req.ep) : ~is_valid_address(req.body[f])

\* the JSON value denotes a finite number strictly greater than zero
PositiveAmount(v) ==
  \/ v.t = "number" /\ v.lex = "" /\ v.n > 0
  \/ v.t = "string" /\ v.lex \in {"1", "0.5"}
  \/ v.t = "bool"

\* the gas-estimate request names no known function or lacks a parameter of it
BadGasRequest(body) ==
  \/ body.function_name \notin {"mint", "transfer", "burn"}
  \/ ~body.params.has_amount
  \/ body.function_name \in {"mint", "transfer"} /\ body.params.to_address = NoField
  \/ body.function_name \in {"transfer", "burn"} /\ body.params.from_address = NoField

\* the request fails input validation
ValidationFailure(req) ==
  \/ req.ep \in PostEndpoints /\ LacksField(req)
  \/ req.ep = "balance" /\ ~is_valid_address(req.address)
  \/ req.ep \in TxEndpoints /\ ~LacksField(req)
       /\ (BadAddress(req) \/ ~PositiveAmount(req.body.amount))
  \/ req.ep = "gas_estimate" /\ ~LacksField(req) /\ BadGasRequest(req.body)

\* C1: a failure is answered with 400 or 500 and carries its message in 'error',
\* and a request that fails input validation is never answered with 500.
C1_ValidationNever500 ==
  \A w \in Workers : Finished(w) =>
    /\ ~slot[w].resp.success =>
         /\ slot[w].resp.status \in {400, 500}
         /\ "error" \in slot[w].resp.keys /\ slot[w].resp.error # ""
    /\ ValidationFailure(slot[w].req) => slot[w].resp.status = 400

\* C2 as stated: every response holds 'success' and exactly one of 'data' (on
\* success) and 'error' (on failure).
C2_EnvelopeEverywhere ==
  \A w \in Workers : Finished(w) =>
    /\ "success" \in slot[w].resp.keys
    /\ slot[w].resp.success =>
         "data" \in slot[w].resp.keys /\ "error" \notin slot[w].resp.keys
    /\ ~slot[w].resp.success =>
         "error" \in slot[w].resp.keys /\ "data" \notin slot[w].resp.keys

\* C2 amended: every response holds 'success'; a failure holds 'error' and no
\* 'data'; a success holds 'data' and no 'error', except the response of GET /,
\* which holds 'message' and 'version' and neither 'data' nor 'error'.
C2_Envelope ==
  \A w \in Workers : Finished(w) =>
    /\ "success" \in slot[w].resp.keys
    /\ slot[w].resp.success = (slot[w].resp.status = 200)
    /\ ~slot[w].resp.success =>
         "error" \in slot[w].resp.keys /\ "data" \notin slot[w].resp.keys
    /\ slot[w].resp.success /\ slot[w].req.ep # "health" =>
         "data" \in slot[w].resp.keys /\ "error" \notin slot[w].resp.keys
    /\ slot[w].req.ep = "health" =>
         slot[w].resp.keys = {"success", "message", "version"}

C2_Witness ==
  \E w \in Workers :
    Finished(w) /\ slot[w].req.ep = "health" /\ slot[w].resp.success

\* C3: two requests handled at once end with the responses and the submitted
\* transactions that handling them one after the other, in some order, gives.
C3_Serializable ==
  (hist.n = 2 /\ \A w \in Workers : Finished(w)) =>
    \E x, y \in Workers :
      /\ x # y
      /\ LET first == Handle(slot[x].req, slot[x].env, handler, hist.base)
             second == Handle(slot[y].req, slot[y].env, handler, first.chain)
         IN /\ slot[x].resp = first.slot.resp
            /\ slot[y].resp = second.slot.resp
            /\ chain = second.chain

\* C4: no method of the contract handler is given an address that
\* is_valid_address rejects; the request is answered with 400 instead.
C4_OnlyValidAddressesDelegated ==
  \A w \in Workers :
    /\ \A c \in slot[w].calls : \A a \in c.addrs : is_valid_address(a)
    /\ Finished(w) /\ slot[w].req.ep = "gas_estimate" /\ ~LacksField(slot[w].req)
         /\ (\E a \in {slot[w].req.body.params.to_address,
                       slot[w].req.body.params.from_address} \ {NoField} :
               ~is_valid_address(a))
       => slot[w].resp.status = 400

\* C5: a mint, transfer or burn whose amount is not a finite number greater
\* than zero is answered 400 'Invalid amount', and the contract handler is
\* given only finite amounts greater than zero.
C5_AmountPositive ==
  \A w \in Workers :
    /\ \A c \in slot[w].calls :
         c.fn \in {"mint_tokens", "transfer_tokens", "burn_tokens"}
           => IsFinite(c.amount) /\ c.amount.n > 0
    /\ Finished(w) /\ slot[w].req.ep \in TxEndpoints /\ ~LacksField(slot[w].req)
         /\ ~BadAddress(slot[w].req) /\ ~PositiveAmount(slot[w].req.body.amount)
       => slot[w].resp.status = 400 /\ slot[w].resp.error = "Invalid amount"

\* C6: a POST whose body is absent, not JSON, not an object or lacks a
\* required field is answered 400 with a 'Missing required field(s)' error.
C6_MissingFieldIs400 ==
  \A w \in Workers :
    Finished(w) /\ slot[w].req.ep \in PostEndpoints /\ LacksField(slot[w].req)
      => /\ slot[w].resp.status = 400
         /\ slot[w].resp.error \in
              {"Missing required fields: to_address, amount",
               "Missing required fields: from_address, to_address, amount, private_key",
               "Missing required fields: from_address, amount, private_key",
               "Missing required field: function_name"}

\* the response holds the transaction the request submitted
Submitted(w) == Finished(w) /\ slot[w].req.ep \in TxEndpoints /\ slot[w].resp.success

\* C7 as stated: a successful mint, transfer or burn response echoes the
\* request's addresses and its amount, the same JSON value of the same type.
C7_EchoIdentical ==
  \A w \in Workers : Submitted(w) =>
    /\ slot[w].resp.data.to_address = slot[w].req.body.to_address
    /\ slot[w].resp.data.from_address = slot[w].req.body.from_address
    /\ slot[w].resp.data.amount = slot[w].req.body.amount

\* the finite value n / 10^k a JSON amount denotes
Denotes(v, n, k) ==
  \/ v.t = "number" /\ v.lex = "" /\ v.n = n /\ v.k = k
  \/ v.t = "string" /\ v.lex = "1" /\ n = 1 /\ k = 0
  \/ v.t = "string" /\ v.lex = "0.5" /\ n = 5 /\ k = 1
  \/ v.t = "bool" /\ n = 1 /\ k = 0

\* C7 amended: a successful mint, transfer or burn response echoes the
\* request's addresses; its 'amount' is always a JSON number, the float value
\* of the submitted amount, also when the amount was submitted as a numeric
\* string or a boolean.
C7_EchoAsNumber ==
  \A w \in Workers : Submitted(w) =>
    /\ slot[w].resp.data.to_address = slot[w].req.body.to_address
    /\ slot[w].resp.data.from_address = slot[w].req.body.from_address
    /\ slot[w].resp.data.amount.t = "number" /\ slot[w].resp.data.amount.lex = ""
    /\ Denotes(slot[w].req.body.amount, slot[w].resp.data.amount.n,
               slot[w].resp.data.amount.k)
    /\ slot[w].resp.data.amount.n > 0

C7_Witness ==
  \E w \in Workers :
    Submitted(w) /\ slot[w].req.ep = "transfer" /\ slot[w].req.body.amount.t = "string"

InFlight(w) == slot[w].pc \in {"decimals", "gas_price", "nonce", "send"}

\* the handler of w has an account to sign with
Signing(w) == InFlight(w) \/ slot[w].sends > 0 \/ Submitted(w)

\* C8: a transfer or burn transaction is signed by and sent from the account of
\* the request's private_key, whose address is from_address up to case; when
\* the two differ nothing is submitted and the request fails; a mint
\* transaction is signed by the configured owner account, whatever the request
\* carries.
C8_SignerIsKeyHolder ==
  /\ \A tx \in chain.submitted :
       /\ tx.sender = AddressOf(tx.signer)
       /\ tx.fn = "mint" => handler.account # "" /\ tx.signer = handler.account
  /\ \A w \in Workers :
       LET req == slot[w].req
           key == req.body.private_key
           tx == slot[w].resp.data.transaction_hash
       IN /\ req.ep \in {"transfer", "burn"} /\ Signing(w) =>
               /\ IsKey(key) /\ slot[w].signer = FromKey(key)
               /\ slot[w].from = AddressOf(FromKey(key))
               /\ Lower(slot[w].from) = Lower(req.body.from_address)
          /\ req.ep \in {"transfer", "burn"} /\ Submitted(w) =>
               /\ tx \in chain.submitted
               /\ tx.signer = FromKey(key) /\ tx.sender = AddressOf(FromKey(key))
          /\ req.ep \in {"transfer", "burn"} /\ Finished(w) /\ ~LacksField(req)
               /\ IsKey(key)
               /\ Lower(AddressOf(FromKey(key))) # Lower(req.body.from_address) =>
               /\ ~slot[w].resp.success /\ slot[w].resp.status \in {400, 500}
               /\ slot[w].sends = 0 /\ slot[w].reads = {}
          /\ req.ep = "mint" /\ Signing(w) =>
               handler.account # "" /\ slot[w].signer = handler.account
          /\ req.ep = "mint" /\ Submitted(w) =>
               tx \in chain.submitted /\ tx.signer = handler.account

C8_Witness ==
  \E w \in Workers :
    Submitted(w) /\ slot[w].req.ep = "transfer"
      /\ slot[w].resp.data.transaction_hash \in chain.submitted

\* C9: handling one mint, transfer or burn calls send_raw_transaction at most
\* once; when the contract handler's method fails (building, signing or
\* sending) the request is answered 500 and is finished.
C9_NoRetry ==
  \A w \in Workers :
    /\ slot[w].sends <= 1
    /\ slot[w].sends = 1 => slot[w].req.ep \in TxEndpoints /\ Finished(w)
    /\ Finished(w) /\ slot[w].req.ep \in TxEndpoints /\ slot[w].calls # {}
         /\ ~slot[w].resp.success => slot[w].resp.status = 500
    /\ slot[w].req.ep \in TxEndpoints /\ slot[w].env.fault = "send"
         /\ slot[w].sends = 1 => ~slot[w].resp.success /\ slot[w].resp.status = 500

C9_Witness ==
  \E w \in Workers :
    /\ Finished(w) /\ slot[w].req.ep = "burn" /\ slot[w].env.fault = "send"
    /\ slot[w].sends = 1 /\ slot[w].resp.status = 500

\* C10: the transaction-status lookup reports 'success' exactly when a receipt
\* with status 1 exists, 'failed' for a receipt with another status, 'pending'
\* when no receipt can be obtained, and the endpoint answers 200 with success
\* true for every hash and every answer of the node.
C10_StatusLookup ==
  \A w \in Workers : Finished(w) /\ slot[w].req.ep = "transaction" =>
    /\ slot[w].resp.status = 200 /\ slot[w].resp.success
    /\ (slot[w].resp.data.status = "success") = (slot[w].env.receipt = "status1")
    /\ (slot[w].resp.data.status = "failed") = (slot[w].env.receipt = "status0")
    /\ (slot[w].resp.data.status = "pending") = (slot[w].env.receipt = "raise")

C10_Witness ==
  \E w \in Workers :
    /\ Finished(w) /\ slot[w].req.ep = "transaction" /\ slot[w].req.tx_hash = "zzz"
    /\ slot[w].resp.status = 200 /\ slot[w].resp.data.status = "pending"

\* the request of w was rejected by validation
Rejected(w) ==
  Finished(w) /\ slot[w].req.ep \in TxEndpoints /\ slot[w].resp.status = 400

\* C11: a mint, transfer or burn answered 400 has called no method of the
\* contract handler, read nothing from the node and sent nothing, and the node
\* holds the transactions it held when the request arrived.
C11_RejectedTouchesNothing ==
  \A w \in Workers : Rejected(w) =>
    /\ slot[w].calls = {} /\ slot[w].reads = {} /\ slot[w].sends = 0
    /\ chain.submitted = hist.base.submitted
    /\ chain.txCount = hist.base.txCount

C11_Witness ==
  \E w \in Workers :
    /\ Rejected(w) /\ slot[w].resp.error = "Invalid amount"
    /\ Cardinality(chain.submitted) = 1

\* C12: every transaction the node accepted carries an on-chain amount of at
\* least 1: int(amount * 10^decimals) >= 1 for every amount that passes the
\* 'amount > 0' validation.
C12_PositiveOnChainAmount ==
  \A tx \in chain.submitted : tx.amount_wei >= 1

\* the message of the field-presence check of a mint, transfer or burn
MissingMessage(ep) ==
  CASE ep = "mint" -> "Missing required fields: to_address, amount"
    [] ep = "transfer" ->
         "Missing required fields: from_address, to_address, amount, private_key"
    [] OTHER -> "Missing required fields: from_address, amount, private_key"

\* the messages of the checks that follow the field-presence check
LaterMessages ==
  {"Invalid sender address", "Invalid recipient address", "Invalid address",
   "Invalid amount", "No account configured for minting", "invalid private key",
   "Private key does not match sender address",
   "Private key does not match burner address"}

\* the messages of the checks made inside the contract handler
HandlerMessages ==
  {"No account configured for minting", "invalid private key",
   "Private key does not match sender address",
   "Private key does not match burner address"}

\* the amount check stops the request: the value is null, a string that is no
\* numeral, a number that is not above zero, or an integer no float can hold
FailsAmountCheck(v) ==
  \/ v.t = "null"
  \/ v.t = "string" /\ v.lex \notin {"1", "0.5", "nan", "inf"}
  \/ v.t = "number" /\ v.lex = "" /\ v.n <= 0
  \/ v.t = "number" /\ v.lex = "10**400"

\* the key does not denote an account, or denotes another account than from_address
FailsKeyCheck(body) ==
  \/ body.private_key \notin {"k1", "k2"}
  \/ body.private_key = "k1" /\ body.from_address \notin {"0xA1", "0xa1"}
  \/ body.private_key = "k2" /\ body.from_address \notin {"0xA2", "0xa2"}

\* worker w answered with this status and this message
Answers(w, status, msg) ==
  /\ slot[w].resp.status = status /\ ~slot[w].resp.success
  /\ slot[w].resp.error = msg

\* C13: the checks of mint, transfer and burn run in a fixed order and the
\* first check that fails alone determines the response: field presence, then
\* the sender (burn: the holder) address, then the recipient address, then the
\* amount, and only then, inside the contract handler and before any read of
\* the node, the configured account (mint) or the match of key and sender.
C13_FirstFailingCheck ==
  \A w \in Workers : Finished(w) /\ slot[w].req.ep \in TxEndpoints =>
    LET ep == slot[w].req.ep
        body == slot[w].req.body
    IN IF LacksField(slot[w].req)
         THEN /\ slot[w].calls = {} /\ slot[w].resp.error \notin LaterMessages
              /\ body.kind \in {"object", "null", "array"} =>
                   Answers(w, 400, MissingMessage(ep))
       ELSE IF ep \in {"transfer", "burn"} /\ ~is_valid_address(body.from_address)
         THEN Answers(w, 400, IF ep = "transfer" THEN "Invalid sender address"
                                                 ELSE "Invalid address")
       ELSE IF ep \in {"mint", "transfer"} /\ ~is_valid_address(body.to_address)
         THEN Answers(w, 400, "Invalid recipient address")
       ELSE IF FailsAmountCheck(body.amount)
         THEN /\ slot[w].calls = {} /\ slot[w].resp.error \notin HandlerMessages
              /\ body.amount.lex # "10**400" => Answers(w, 400, "Invalid amount")
       ELSE IF ep = "mint"
         THEN handler.account = "" =>
                /\ Answers(w, 500, "No account configured for minting")
                /\ slot[w].reads = {}
       ELSE FailsKeyCheck(body) =>
              /\ slot[w].resp.status = 500 /\ slot[w].reads = {}
              /\ slot[w].resp.error \in HandlerMessages
              /\ body.private_key \in {"k1", "k2"} =>
                   Answers(w, 500, IF ep = "transfer"
                                     THEN "Private key does not match sender address"
                                     ELSE "Private key does not match burner address")

\* a transfer that fails the sender, the recipient, the amount and the key
\* check is answered by the sender check
C13_Witness ==
  \E w \in Workers :
    /\ Finished(w) /\ slot[w].req.ep = "transfer"
    /\ slot[w].req.body.kind = "object"
    /\ slot[w].req.body.from_address = "zzz" /\ slot[w].req.body.to_address = "zzz"
    /\ slot[w].req.body.amount = JStr("abc") /\ slot[w].req.body.private_key = "bad"
    /\ Answers(w, 400, "Invalid sender address")

====
